---- MODULE Spec2Model ----
(***************************************************************************)
(* Request-instrumentation and admission-control layer of the two backend *)
(* stacks: the Node gateway (rateLimiter, metricsMiddleware) and the C#    *)
(* service (RateLimitingMiddleware, MetricsMiddleware, MetricsService).    *)
(*                                                                         *)
(* Time is counted in clock ticks.  The window length, the quota and the   *)
(* histogram capacity of the programs (900000 ms, 1000, 1000) are scaled   *)
(* down to the bounds below; the code's comparisons are kept as written.   *)
(***************************************************************************)
EXTENDS Integers, Sequences, FiniteSets, Bags, TLC

VARIABLES
    now,             \* the wall clock both stacks read (Date.now(), DateTime.UtcNow)
    rateLimitStore,  \* Node: Map clientId -> {count, windowStart}
    clients,         \* C#:   ConcurrentDictionary clientId -> ClientRateLimit
    nodeResp,        \* Node: the last response the limiter produced, per client
    csResp,          \* C#:   the last response the limiter produced, per client
    issued,          \* number of requests a client has issued so far (saturating)
    firstAt,         \* time of a client's first request
    nodeMetrics,     \* Node: the metrics object
    nodeRequests,    \* Node: requests in flight, and counts of those rejected / ended
    counters,        \* C#:   MetricsService._counters
    histograms,      \* C#:   MetricsService._histograms
    csRequests,      \* C#:   requests in flight, counts of those rejected / done,
                     \*       and of the InvokeAsync calls that returned / raised
    stack,           \* which of the two services a pipeline run observes
    recorded,        \* every sample handed to RecordValue, in call order, per key
    callers,         \* concurrent IncrementCounter callers (position, key, value read)
    started,         \* number of IncrementCounter calls begun per key
    values,          \* CalculatePercentile: the input array
    stats,           \* CalculatePercentile: the statistics computed from it
    snapshot,        \* the snapshot being taken / last returned by the metrics endpoint
    written,         \* whether a metric was updated since that snapshot
    recorders,       \* concurrent RecordValue callers (position, sample, length read)
    held,            \* the samples of the series before the concurrent calls began
    admitted,        \* admissions of the last windowDuration, per stack and tick
    unscanned,       \* the tables of two limiters that never run the cleanup scan
    heap,            \* C#:   the ClientRateLimit objects created so far
    threads          \* C#:   concurrent InvokeAsync calls (position, now, locals)

vars == <<now, rateLimitStore, clients, nodeResp, csResp, issued, firstAt,
          nodeMetrics, nodeRequests, counters, histograms, csRequests,
          stack, recorded, callers, started, values, stats,
          snapshot, written, recorders, held, admitted, unscanned, heap, threads>>

limiterVars == <<now, rateLimitStore, clients, nodeResp, csResp, issued, firstAt>>
metricsVars == <<nodeMetrics, nodeRequests, counters, histograms, csRequests,
                 stack, recorded>>
counterVars == <<callers, started>>
percentileVars == <<values, stats>>
snapshotVars == <<snapshot, written, recorders, held>>
burstVars == <<admitted>>
scanVars == <<unscanned>>
raceVars == <<heap, threads>>

-----------------------------------------------------------------------------
(* Bounds of the model *)

\* length of the rate-limit window in clock ticks (the programs: 15 minutes)
WindowTicks == 3
\* quota of requests per window (the programs: 1000)
QuotaSize == 3
\* clock ticks per second (the programs: 1000 ms)
TicksPerSecond == 2

\* the clock runs past two whole windows, so that expiry and cleanup happen
MaxTime == 2 * WindowTicks + 1

Clients == {"10.0.0.1", "unknown"}

-----------------------------------------------------------------------------
(* Node rate limiter *)

RATE_LIMIT_WINDOW == WindowTicks
RATE_LIMIT_MAX_REQUESTS == QuotaSize

\* Math.min, Math.max
Min(a, b) == IF a < b THEN a ELSE b
Max(a, b) == IF a > b THEN a ELSE b

\* Math.ceil(a / b) for b > 0
Ceil(a, b) == -((-a) \div b)

\* a key the Map / dictionary does not hold
NoEntry == [count |-> -1, windowStart |-> -1]
\* a header the response does not carry
NoTimestamp == [seconds |-> -1, fraction |-> -1, digits |-> 0]
\* the response before any middleware has written to it
NoResponse == [status |-> 0, limit |-> -1, remaining |-> -1, reset |-> NoTimestamp,
               retryAfter |-> -1, next |-> FALSE]

\* Date.prototype.toISOString: whole seconds and a 3-digit fraction
ToISOString(t) ==
    [seconds |-> t \div TicksPerSecond, fraction |-> t % TicksPerSecond, digits |-> 3]

\* a scan that deletes every entry whose window has started before now
NodeCleanupStarted(store, t) ==
    [k \in Clients |->
        IF store[k] # NoEntry /\ t - store[k].windowStart > 0
        THEN NoEntry ELSE store[k]]


\* for (const [key, data] of rateLimitStore.entries()) ... delete
NodeCleanup(store, t) ==
    [k \in Clients |->
        IF store[k] # NoEntry /\ t - store[k].windowStart > RATE_LIMIT_WINDOW
        THEN NoEntry ELSE store[k]]

\* if (!rateLimitStore.has(clientId)) rateLimitStore.set(clientId, {...})
NodeGetOrCreate(store, c, t) ==
    IF store[c] = NoEntry
    THEN [store EXCEPT ![c] = [count |-> 0, windowStart |-> t]]
    ELSE store

\* Reset window if expired
NodeResetExpired(data, t) ==
    IF t - data.windowStart > RATE_LIMIT_WINDOW
    THEN [count |-> 0, windowStart |-> t]
    ELSE data

\* the entry of the client when the limit is checked
NodeClientData(store, c, t) ==
    NodeResetExpired(NodeGetOrCreate(NodeCleanup(store, t), c, t)[c], t)

\* a limit check that is off by one
NodeLimitExceededEarly(data) == data.count >= RATE_LIMIT_MAX_REQUESTS - 1

\* a limit check that lets one request too many through
NodeLimitExceededLate(data) == data.count > RATE_LIMIT_MAX_REQUESTS


\* Check rate limit
NodeLimitExceeded(data) == data.count >= RATE_LIMIT_MAX_REQUESTS

\* a rejection whose reset header is counted from the request, not the window
NodeRejectionResetFromNow(data, t) ==
    [status |-> 429,
     limit |-> RATE_LIMIT_MAX_REQUESTS,
     remaining |-> 0,
     reset |-> ToISOString(t + RATE_LIMIT_WINDOW),
     retryAfter |-> Ceil(data.windowStart + RATE_LIMIT_WINDOW - t, TicksPerSecond),
     next |-> FALSE]

\* res.set({...}); return res.status(429).json({error, retryAfter})
NodeRejection(data, t) ==
    [status |-> 429,
     limit |-> RATE_LIMIT_MAX_REQUESTS,
     remaining |-> 0,
     reset |-> ToISOString(data.windowStart + RATE_LIMIT_WINDOW),
     retryAfter |-> Ceil(data.windowStart + RATE_LIMIT_WINDOW - t, TicksPerSecond),
     next |-> FALSE]

\* clientData.count++; res.set({...}); next()
NodeAdmission(data) ==
    [status |-> 0,
     limit |-> RATE_LIMIT_MAX_REQUESTS,
     remaining |-> RATE_LIMIT_MAX_REQUESTS - data.count,
     reset |-> ToISOString(data.windowStart + RATE_LIMIT_WINDOW),
     retryAfter |-> -1,
     next |-> TRUE]

\* a limiter that counts the requests it rejects too
RateLimiterCountsRejections(store, c, t) ==
    LET data == NodeClientData(store, c, t)
        kept == [NodeCleanup(store, t) EXCEPT ![c] = data]
        counted == [data EXCEPT !.count = @ + 1]
    IN  IF NodeLimitExceeded(data)
        THEN [store |-> [kept EXCEPT ![c] = counted], resp |-> NodeRejection(data, t)]
        ELSE [store |-> [kept EXCEPT ![c] = counted], resp |-> NodeAdmission(counted)]

\* the whole middleware: the store it leaves and the response it writes
RateLimiter(store, c, t) ==
    LET data == NodeClientData(store, c, t)
        kept == [NodeCleanup(store, t) EXCEPT ![c] = data]
    IN  IF NodeLimitExceeded(data)
        THEN [store |-> kept, resp |-> NodeRejection(data, t)]
        ELSE LET counted == [data EXCEPT !.count = @ + 1]
             IN  [store |-> [kept EXCEPT ![c] = counted],
                  resp |-> NodeAdmission(counted)]

-----------------------------------------------------------------------------
(* C# rate limiter *)

MaxRequests == QuotaSize
WindowMinutes == WindowTicks

\* now.Subtract(start).TotalMinutes
TotalMinutes(t, start) == t - start

\* DateTime.ToString("O"): whole seconds and a 7-digit fraction
ToStringO(t) ==
    [seconds |-> t \div TicksPerSecond, fraction |-> t % TicksPerSecond, digits |-> 7]

\* a scan that deletes every entry whose window has started before now
CleanExpiredEntriesStarted(table, t) ==
    [k \in Clients |->
        IF table[k] # NoEntry /\ TotalMinutes(t, table[k].windowStart) >= 1
        THEN NoEntry ELSE table[k]]

\* CleanExpiredEntries: remove the entries that are two windows old
CleanExpiredEntries(table, t) ==
    [k \in Clients |->
        IF table[k] # NoEntry /\ TotalMinutes(t, table[k].windowStart) >= WindowMinutes * 2
        THEN NoEntry ELSE table[k]]

\* _clients.GetOrAdd(clientId, _ => new ClientRateLimit {WindowStart = now, RequestCount = 0})
GetOrAdd(table, c, t) ==
    IF table[c] = NoEntry
    THEN [table EXCEPT ![c] = [count |-> 0, windowStart |-> t]]
    ELSE table

\* a reset as soon as the window is one tick old
CsResetEveryTick(limit, t) ==
    IF TotalMinutes(t, limit.windowStart) >= 1
    THEN [count |-> 0, windowStart |-> t]
    ELSE limit

\* Reset window if expired
CsResetExpired(limit, t) ==
    IF TotalMinutes(t, limit.windowStart) >= WindowMinutes
    THEN [count |-> 0, windowStart |-> t]
    ELSE limit

CsClientLimit(table, c, t) ==
    CsResetExpired(GetOrAdd(CleanExpiredEntries(table, t), c, t)[c], t)

\* Check if limit exceeded
CsLimitExceeded(limit) == limit.count >= MaxRequests

\* StatusCode = 429 and the three headers; the response has no body
CsRejection(limit) ==
    [status |-> 429,
     limit |-> MaxRequests,
     remaining |-> 0,
     reset |-> ToStringO(limit.windowStart + WindowMinutes),
     retryAfter |-> -1,
     next |-> FALSE]

\* RequestCount++; the three headers; await _next(context)
CsAdmission(limit) ==
    [status |-> 0,
     limit |-> MaxRequests,
     remaining |-> MaxRequests - limit.count,
     reset |-> ToStringO(limit.windowStart + WindowMinutes),
     retryAfter |-> -1,
     next |-> TRUE]

\* RateLimitingMiddleware.InvokeAsync up to the call of _next
RateLimitingInvoke(table, c, t) ==
    LET limit == CsClientLimit(table, c, t)
        kept == [CleanExpiredEntries(table, t) EXCEPT ![c] = limit]
    IN  IF CsLimitExceeded(limit)
        THEN [store |-> kept, resp |-> CsRejection(limit)]
        ELSE LET counted == [limit EXCEPT !.count = @ + 1]
             IN  [store |-> [kept EXCEPT ![c] = counted],
                  resp |-> CsAdmission(counted)]

-----------------------------------------------------------------------------
(* Node metrics middleware *)

Methods == {"GET", "POST"}
Paths == {"/api/users", "/api/tasks"}
Routes == {[method |-> "GET", path |-> "/api/users"],
           [method |-> "POST", path |-> "/api/tasks"]}
Statuses == {200, 404, 500}
ErrorTypes == {"server", "client"}

\* the clock of a pipeline run stops here, so a request lasts 0..MaxLatency ticks
MaxLatency == 1

\* the JavaScript number Infinity: above every duration there is
Infinity == MaxTime + MaxLatency + 1

\* const metrics = {...}; an absent property of byMethod etc. reads as 0
InitialMetrics ==
    [requests |-> [total |-> 0,
                   byMethod |-> [m \in Methods |-> 0],
                   byStatus |-> [st \in Statuses |-> 0],
                   byEndpoint |-> [p \in Paths |-> 0]],
     responseTime |-> [total |-> 0, count |-> 0, average |-> <<0, 1>>,
                       min |-> Infinity, max |-> 0],
     errors |-> [total |-> 0, byType |-> [e \in ErrorTypes |-> 0], rate |-> 0],
     uptime |-> 0]

\* Track request
MetricsMiddleware(metrics, req) ==
    [metrics EXCEPT !.requests.total = @ + 1,
                    !.requests.byMethod[req.method] = @ + 1,
                    !.requests.byEndpoint[req.path] = @ + 1]

\* (errors.total / requests.total * 100).toFixed(2), in hundredths of a percent
ErrorRate(errorsTotal, requestsTotal) ==
    (errorsTotal * 20000 + requestsTotal) \div (2 * requestsTotal)

\* an error count that leaves client errors out of the total
TrackErrorsServerOnly(errors, statusCode) ==
    IF statusCode >= 400
    THEN [errors EXCEPT !.total = IF statusCode >= 500 THEN @ + 1 ELSE @,
                        !.byType[IF statusCode >= 500 THEN "server" ELSE "client"] = @ + 1]
    ELSE errors

\* Track errors
TrackErrors(errors, statusCode) ==
    IF statusCode >= 400
    THEN [errors EXCEPT !.total = @ + 1,
                        !.byType[IF statusCode >= 500 THEN "server" ELSE "client"] = @ + 1]
    ELSE errors

\* the res.end the middleware installs: it runs when the response is sent
ResEnd(metrics, startTime, t, statusCode) ==
    LET responseTime == t - startTime
        timed == [metrics.responseTime EXCEPT
                    !.total = @ + responseTime,
                    !.count = @ + 1,
                    !.average = <<metrics.responseTime.total + responseTime,
                                  metrics.responseTime.count + 1>>,
                    !.min = Min(@, responseTime),
                    !.max = Max(@, responseTime)]
        tracked == TrackErrors(metrics.errors, statusCode)
    IN  [metrics EXCEPT
            !.responseTime = timed,
            !.requests.byStatus[statusCode] = @ + 1,
            !.errors = [tracked EXCEPT
                          !.rate = ErrorRate(tracked.total, metrics.requests.total)]]

\* the metrics middleware registered ahead of the limiter
AlwaysReachesMetrics(resp) == TRUE

\* app.use(rateLimiter); app.use(metricsMiddleware): the metrics middleware
\* runs only when the limiter called next()
NodeReachesMetrics(resp) == resp.next

-----------------------------------------------------------------------------
(* C# MetricsService and MetricsMiddleware *)

\* capacity of a histogram series (the program: 1000)
HistogramCapacity == 3

\* string.Join(sep, labels)
RECURSIVE Join(_, _)
Join(labels, sep) ==
    IF Len(labels) = 0 THEN ""
    ELSE IF Len(labels) = 1 THEN labels[1]
    ELSE labels[1] \o sep \o Join(Tail(labels), sep)

CreateKey(name, labels) ==
    IF Len(labels) = 0 THEN name ELSE name \o "_" \o Join(labels, "_")

\* an update delegate that adds 2
CounterUpdateTwice(current) == current + 2

\* the update delegate of IncrementCounter
CounterUpdate(current) == current + 1

\* _counters.AddOrUpdate(key, 1, (_, current) => current + 1), run undisturbed
IncrementCounter(table, name, labels) ==
    LET key == CreateKey(name, labels)
    IN  IF key \in DOMAIN table
        THEN [table EXCEPT ![key] = CounterUpdate(@)]
        ELSE table @@ (key :> 1)

\* an update that drops the newest sample instead of the oldest
HistogramUpdateDropNewest(current, value) ==
    LET added == Append(current, value)
    IN  IF Len(added) > HistogramCapacity THEN SubSeq(added, 1, HistogramCapacity) ELSE added

\* the update delegate of RecordValue: Add, then RemoveAt(0) above the capacity
HistogramUpdate(current, value) ==
    LET added == Append(current, value)
    IN  IF Len(added) > HistogramCapacity THEN Tail(added) ELSE added

\* _histograms.AddOrUpdate(key, new List<double> { value }, ...), run undisturbed
RecordValue(table, name, value, labels) ==
    LET key == CreateKey(name, labels)
    IN  IF key \in DOMAIN table
        THEN [table EXCEPT ![key] = HistogramUpdate(@, value)]
        ELSE table @@ (key :> <<value>>)

\* context.Response.StatusCode.ToString()
StatusText == (200 :> "200") @@ (404 :> "404") @@ (500 :> "500") @@ (429 :> "429")

\* MetricsMiddleware.InvokeAsync before await _next: the request counter
CsRequestStarted(table, req) ==
    IncrementCounter(table, "http_requests_total", <<req.method, req.path>>)

\* the statements after await _next returned: duration, then the response
\* counter; InvokeAsync then returns
CsRecordSuccess(metrics, req, elapsed, statusCode) ==
    [histograms |-> RecordValue(metrics.histograms, "http_request_duration_ms",
                                elapsed, <<req.method, req.path>>),
     counters |-> IncrementCounter(metrics.counters, "http_responses_total",
                                   <<req.method, req.path, StatusText[statusCode]>>),
     rethrow |-> FALSE]

\* a catch block that counts the error and forgets the duration
CsRecordFailureNoDuration(metrics, req, elapsed) ==
    [histograms |-> metrics.histograms,
     counters |-> IncrementCounter(metrics.counters, "http_errors_total",
                                   <<req.method, req.path>>),
     rethrow |-> TRUE]

\* a catch block that records and then swallows the error
CsRecordFailureSwallowed(metrics, req, elapsed) ==
    [histograms |-> RecordValue(metrics.histograms, "http_request_duration_ms",
                                elapsed, <<req.method, req.path>>),
     counters |-> IncrementCounter(metrics.counters, "http_errors_total",
                                   <<req.method, req.path>>),
     rethrow |-> FALSE]

\* the catch block: duration, then the error counter, then throw
CsRecordFailure(metrics, req, elapsed) ==
    [histograms |-> RecordValue(metrics.histograms, "http_request_duration_ms",
                                elapsed, <<req.method, req.path>>),
     counters |-> IncrementCounter(metrics.counters, "http_errors_total",
                                   <<req.method, req.path>>),
     rethrow |-> TRUE]

\* app.UseMiddleware<RateLimitingMiddleware>(); app.UseMiddleware<MetricsMiddleware>():
\* the metrics middleware runs only when the limiter awaited _next
CsReachesMetrics(resp) == resp.next

-----------------------------------------------------------------------------
(* The two limiters fed the same requests: one request at a time, each      *)
(* stamped with the clock both stacks read.                                 *)

\* the parts of the state a specification does not use stay as they are here
IdleMetrics ==
    /\ nodeMetrics = <<>>
    /\ nodeRequests = <<>>
    /\ counters = <<>>
    /\ histograms = <<>>
    /\ csRequests = <<>>
    /\ stack = "none"
    /\ recorded = <<>>

IdleCounter ==
    /\ callers = <<>>
    /\ started = <<>>

IdlePercentile ==
    /\ values = <<>>
    /\ stats = <<>>

IdleSnapshot ==
    /\ snapshot = <<>>
    /\ written = FALSE
    /\ recorders = <<>>
    /\ held = <<>>

IdleBurst == admitted = <<>>

IdleScan == unscanned = <<>>

IdleRace ==
    /\ heap = <<>>
    /\ threads = <<>>

IdleLimiter ==
    /\ now = 0
    /\ rateLimitStore = <<>>
    /\ clients = <<>>
    /\ nodeResp = <<>>
    /\ csResp = <<>>
    /\ issued = <<>>
    /\ firstAt = <<>>

InitLimiter ==
    /\ now = 0
    /\ rateLimitStore = [c \in Clients |-> NoEntry]
    /\ clients = [c \in Clients |-> NoEntry]
    /\ nodeResp = [c \in Clients |-> NoResponse]
    /\ csResp = [c \in Clients |-> NoResponse]
    /\ issued = [c \in Clients |-> 0]
    /\ firstAt = [c \in Clients |-> -1]
    /\ IdleMetrics
    /\ IdleCounter
    /\ IdlePercentile
    /\ IdleSnapshot
    /\ IdleBurst
    /\ IdleScan
    /\ IdleRace

\* time passes
Tick ==
    /\ now < MaxTime
    /\ now' = now + 1
    /\ UNCHANGED <<rateLimitStore, clients, nodeResp, csResp, issued, firstAt>>
    /\ UNCHANGED <<metricsVars, counterVars, percentileVars>>
    /\ UNCHANGED <<snapshotVars, burstVars>>
    /\ UNCHANGED <<scanVars, raceVars>>

\* a request of client c reaches the limiter of either stack
LimiterRequest(c) ==
    /\ rateLimitStore' = RateLimiter(rateLimitStore, c, now).store
    /\ nodeResp' = [nodeResp EXCEPT ![c] = RateLimiter(rateLimitStore, c, now).resp]
    /\ clients' = RateLimitingInvoke(clients, c, now).store
    /\ csResp' = [csResp EXCEPT ![c] = RateLimitingInvoke(clients, c, now).resp]
    /\ issued' = [issued EXCEPT ![c] = Min(@ + 1, QuotaSize + 1)]
    /\ firstAt' = [firstAt EXCEPT ![c] = IF @ = -1 THEN now ELSE @]
    /\ UNCHANGED now
    /\ UNCHANGED <<metricsVars, counterVars, percentileVars>>
    /\ UNCHANGED <<snapshotVars, burstVars>>
    /\ UNCHANGED <<scanVars, raceVars>>

NextLimiter ==
    \/ Tick
    \/ \E c \in Clients : LimiterRequest(c)

SpecLimiter == InitLimiter /\ [][NextLimiter]_vars

-----------------------------------------------------------------------------
(* The request pipeline of one service: limiter, metrics middleware, handler. *)
(* A run observes either the Node gateway or the C# service.  Requests in     *)
(* flight are a bag of (route, start time); the requests that left the        *)
(* pipeline are counted per route and outcome.                                *)

\* number of requests a pipeline run receives: enough to exhaust one quota
MaxPipelineRequests == QuotaSize + 1

Stacks == {"node", "cs"}

\* the callers a pipeline run sees
PipelineClients == {"10.0.0.1"}

NoneOf(S) == [x \in S |-> 0]

\* sum of f over the finite set S
RECURSIVE Sum(_, _)
Sum(f, S) ==
    IF S = {} THEN 0
    ELSE LET x == CHOOSE y \in S : TRUE IN f[x] + Sum(f, S \ {x})

InitPipeline ==
    /\ now = 0
    /\ rateLimitStore = [c \in Clients |-> NoEntry]
    /\ clients = [c \in Clients |-> NoEntry]
    /\ nodeResp = [c \in Clients |-> NoResponse]
    /\ csResp = [c \in Clients |-> NoResponse]
    /\ issued = [c \in Clients |-> 0]
    /\ firstAt = [c \in Clients |-> -1]
    /\ stack \in Stacks
    /\ nodeMetrics = InitialMetrics
    /\ nodeRequests = [received |-> 0, rejected |-> 0, inFlight |-> EmptyBag,
                       ended |-> NoneOf(Routes), failed |-> 0, elapsed |-> 0]
    /\ counters = <<>>
    /\ histograms = <<>>
    /\ csRequests = [received |-> 0, rejected |-> 0, inFlight |-> EmptyBag,
                     completed |-> NoneOf(Routes), faulted |-> NoneOf(Routes),
                     returned |-> 0, raised |-> 0]
    /\ recorded = <<>>
    /\ IdleCounter
    /\ IdlePercentile
    /\ IdleSnapshot
    /\ IdleBurst
    /\ IdleScan
    /\ IdleRace

\* a request waiting for its handler
Pending(route, t) == [route |-> route, start |-> t]

\* a pipeline whose limiter calls the next middleware for every request
ReceiveAlways(requests, route, t, resp) ==
    IF resp.next
    THEN [requests EXCEPT !.received = @ + 1,
                          !.inFlight = @ (+) SetToBag({Pending(route, t)})]
    ELSE [requests EXCEPT !.received = @ + 1, !.rejected = @ + 1,
                          !.inFlight = @ (+) SetToBag({Pending(route, t)})]

\* the bookkeeping of a request that arrives: rejected, or in flight
Receive(requests, route, t, resp) ==
    IF resp.next
    THEN [requests EXCEPT !.received = @ + 1,
                          !.inFlight = @ (+) SetToBag({Pending(route, t)})]
    ELSE [requests EXCEPT !.received = @ + 1, !.rejected = @ + 1]

\* time passes while handlers run
PipelineTick ==
    /\ now < MaxLatency
    /\ now' = now + 1
    /\ UNCHANGED <<rateLimitStore, clients, nodeResp, csResp, issued, firstAt>>
    /\ UNCHANGED <<metricsVars, counterVars, percentileVars>>
    /\ UNCHANGED <<snapshotVars, burstVars>>
    /\ UNCHANGED <<scanVars, raceVars>>

\* Node: a request passes rateLimiter and, if admitted, metricsMiddleware
NodeRequest(c, route) ==
    /\ stack = "node"
    /\ nodeRequests.received < MaxPipelineRequests
    /\ LET decision == RateLimiter(rateLimitStore, c, now)
       IN  /\ rateLimitStore' = decision.store
           /\ nodeResp' = [nodeResp EXCEPT ![c] = decision.resp]
           /\ nodeMetrics' = IF NodeReachesMetrics(decision.resp)
                             THEN MetricsMiddleware(nodeMetrics, route)
                             ELSE nodeMetrics
           /\ nodeRequests' = Receive(nodeRequests, route, now, decision.resp)
    /\ issued' = [issued EXCEPT ![c] = Min(@ + 1, QuotaSize + 1)]
    /\ firstAt' = [firstAt EXCEPT ![c] = IF @ = -1 THEN now ELSE @]
    /\ UNCHANGED <<now, clients, csResp, counters, histograms, csRequests, stack, recorded>>
    /\ UNCHANGED <<counterVars, percentileVars>>
    /\ UNCHANGED <<snapshotVars, burstVars>>
    /\ UNCHANGED <<scanVars, raceVars>>

\* Node: the handler (or the error handler) sends the response: res.end runs
NodeEnd(req, statusCode) ==
    /\ stack = "node"
    /\ BagIn(req, nodeRequests.inFlight)
    /\ nodeMetrics' = ResEnd(nodeMetrics, req.start, now, statusCode)
    /\ nodeRequests' = [nodeRequests EXCEPT
                            !.inFlight = @ (-) SetToBag({req}),
                            !.ended[req.route] = @ + 1,
                            !.failed = IF statusCode >= 400 THEN @ + 1 ELSE @,
                            !.elapsed = @ + (now - req.start)]
    /\ UNCHANGED <<limiterVars, counters, histograms, csRequests, stack, recorded>>
    /\ UNCHANGED <<counterVars, percentileVars>>
    /\ UNCHANGED <<snapshotVars, burstVars>>
    /\ UNCHANGED <<scanVars, raceVars>>

\* C#: a request passes RateLimitingMiddleware and, if admitted, enters
\* MetricsMiddleware up to await _next
CsRequest(c, route) ==
    /\ stack = "cs"
    /\ csRequests.received < MaxPipelineRequests
    /\ LET decision == RateLimitingInvoke(clients, c, now)
       IN  /\ clients' = decision.store
           /\ csResp' = [csResp EXCEPT ![c] = decision.resp]
           /\ counters' = IF CsReachesMetrics(decision.resp)
                          THEN CsRequestStarted(counters, route)
                          ELSE counters
           /\ csRequests' = Receive(csRequests, route, now, decision.resp)
    /\ issued' = [issued EXCEPT ![c] = Min(@ + 1, QuotaSize + 1)]
    /\ firstAt' = [firstAt EXCEPT ![c] = IF @ = -1 THEN now ELSE @]
    /\ UNCHANGED <<now, rateLimitStore, nodeResp, nodeMetrics, nodeRequests, histograms,
                   stack, recorded>>
    /\ UNCHANGED <<counterVars, percentileVars>>
    /\ UNCHANGED <<snapshotVars, burstVars>>
    /\ UNCHANGED <<scanVars, raceVars>>

\* C#: await _next returned; the try block records and InvokeAsync returns
CsReturn(req, statusCode) ==
    /\ stack = "cs"
    /\ BagIn(req, csRequests.inFlight)
    /\ LET after == CsRecordSuccess([histograms |-> histograms, counters |-> counters],
                                    req.route, now - req.start, statusCode)
       IN  /\ histograms' = after.histograms
           /\ counters' = after.counters
           /\ csRequests' = [csRequests EXCEPT
                                !.inFlight = @ (-) SetToBag({req}),
                                !.completed[req.route] = @ + 1,
                                !.returned = IF after.rethrow THEN @ ELSE @ + 1,
                                !.raised = IF after.rethrow THEN @ + 1 ELSE @]
    /\ UNCHANGED <<limiterVars, nodeMetrics, nodeRequests, stack, recorded>>
    /\ UNCHANGED <<counterVars, percentileVars>>
    /\ UNCHANGED <<snapshotVars, burstVars>>
    /\ UNCHANGED <<scanVars, raceVars>>

\* C#: await _next threw; the catch block records and rethrows
CsThrow(req) ==
    /\ stack = "cs"
    /\ BagIn(req, csRequests.inFlight)
    /\ LET after == CsRecordFailure([histograms |-> histograms, counters |-> counters],
                                    req.route, now - req.start)
       IN  /\ histograms' = after.histograms
           /\ counters' = after.counters
           /\ csRequests' = [csRequests EXCEPT
                                !.inFlight = @ (-) SetToBag({req}),
                                !.faulted[req.route] = @ + 1,
                                !.returned = IF after.rethrow THEN @ ELSE @ + 1,
                                !.raised = IF after.rethrow THEN @ + 1 ELSE @]
    /\ UNCHANGED <<limiterVars, nodeMetrics, nodeRequests, stack, recorded>>
    /\ UNCHANGED <<counterVars, percentileVars>>
    /\ UNCHANGED <<snapshotVars, burstVars>>
    /\ UNCHANGED <<scanVars, raceVars>>

PendingRequests == {Pending(route, t) : route \in Routes, t \in 0..MaxLatency}

NextPipeline ==
    \/ PipelineTick
    \/ \E c \in PipelineClients, route \in Routes : NodeRequest(c, route)
    \/ \E req \in PendingRequests, statusCode \in Statuses : NodeEnd(req, statusCode)
    \/ \E c \in PipelineClients, route \in Routes : CsRequest(c, route)
    \/ \E req \in PendingRequests, statusCode \in Statuses : CsReturn(req, statusCode)
    \/ \E req \in PendingRequests : CsThrow(req)

SpecPipeline == InitPipeline /\ [][NextPipeline]_vars

-----------------------------------------------------------------------------
(* Concurrent IncrementCounter calls.  ConcurrentDictionary.AddOrUpdate is a  *)
(* loop: read the entry, then add the key if it was absent, or replace the    *)
(* value read by the delegate's result if the entry still holds that value;   *)
(* when the entry changed in between, start over.                             *)

\* number of concurrent callers
NumCallers == 3

Callers == 1..NumCallers
CounterNames == {"x", "y"}

\* the value of a counter in a table (0 when the key is absent)
CounterValue(table, key) == IF key \in DOMAIN table THEN table[key] ELSE 0

\* a replace that does not compare with the value read
TryUpdateBlind(table, key, seen) == key \in DOMAIN table

\* the compare-and-replace of AddOrUpdate succeeds when the entry is unchanged
TryUpdateSucceeds(table, key, seen) == key \in DOMAIN table /\ table[key] = seen

\* the add of AddOrUpdate succeeds when the key is still absent
TryAddSucceeds(table, key) == key \notin DOMAIN table

InitCounter ==
    /\ IdleLimiter
    /\ nodeMetrics = <<>>
    /\ nodeRequests = <<>>
    /\ \E present \in SUBSET CounterNames : counters = [k \in present |-> 1]
    /\ histograms = <<>>
    /\ csRequests = <<>>
    /\ stack = "none"
    /\ recorded = <<>>
    /\ callers \in [Callers -> [pc : {"call"}, name : CounterNames, seen : {0}]]
    /\ started = counters
    /\ IdlePercentile
    /\ IdleSnapshot
    /\ IdleBurst
    /\ IdleScan
    /\ IdleRace

\* AddOrUpdate reads the entry
TryGetValue(p) ==
    /\ callers[p].pc = "call"
    /\ LET key == CreateKey(callers[p].name, <<>>)
       IN  callers' = [callers EXCEPT
                ![p].pc = IF key \in DOMAIN counters THEN "update" ELSE "add",
                ![p].seen = CounterValue(counters, key)]
    /\ UNCHANGED <<limiterVars, metricsVars, started, percentileVars>>
    /\ UNCHANGED <<snapshotVars, burstVars>>
    /\ UNCHANGED <<scanVars, raceVars>>

\* AddOrUpdate stores the delegate's result, or starts over
TryUpdate(p) ==
    /\ callers[p].pc = "update"
    /\ LET key == CreateKey(callers[p].name, <<>>)
       IN  IF TryUpdateSucceeds(counters, key, callers[p].seen)
           THEN /\ counters' = [counters EXCEPT ![key] = CounterUpdate(callers[p].seen)]
                /\ callers' = [callers EXCEPT ![p].pc = "done"]
           ELSE /\ counters' = counters
                /\ callers' = [callers EXCEPT ![p].pc = "call"]
    /\ UNCHANGED <<limiterVars, nodeMetrics, nodeRequests, histograms, csRequests, stack,
                   recorded, started, percentileVars>>
    /\ UNCHANGED <<snapshotVars, burstVars>>
    /\ UNCHANGED <<scanVars, raceVars>>

\* AddOrUpdate adds the key with the value 1, or starts over
TryAdd(p) ==
    /\ callers[p].pc = "add"
    /\ LET key == CreateKey(callers[p].name, <<>>)
       IN  IF TryAddSucceeds(counters, key)
           THEN /\ counters' = counters @@ (key :> 1)
                /\ callers' = [callers EXCEPT ![p].pc = "done"]
           ELSE /\ counters' = counters
                /\ callers' = [callers EXCEPT ![p].pc = "call"]
    /\ UNCHANGED <<limiterVars, nodeMetrics, nodeRequests, histograms, csRequests, stack,
                   recorded, started, percentileVars>>
    /\ UNCHANGED <<snapshotVars, burstVars>>
    /\ UNCHANGED <<scanVars, raceVars>>

NextCounter ==
    \/ \E p \in Callers : TryGetValue(p)
    \/ \E p \in Callers : TryUpdate(p)
    \/ \E p \in Callers : TryAdd(p)

SpecCounter == InitCounter /\ [][NextCounter]_vars

-----------------------------------------------------------------------------
(* A sequence of RecordValue calls, one at a time *)

\* samples recorded beyond the capacity of a series
ExtraSamples == 2

SampleValues == {10, 20}
SeriesLabels == {<<"GET", "/api/users">>, <<"POST", "/api/tasks">>}

InitHistogram ==
    /\ IdleLimiter
    /\ nodeMetrics = <<>>
    /\ nodeRequests = <<>>
    /\ counters = <<>>
    /\ histograms = <<>>
    /\ csRequests = <<>>
    /\ stack = "none"
    /\ recorded = <<>>
    /\ IdleCounter
    /\ IdlePercentile
    /\ IdleSnapshot
    /\ IdleBurst
    /\ IdleScan
    /\ IdleRace

\* the samples handed to RecordValue for a key so far
RecordedFor(key) == IF key \in DOMAIN recorded THEN recorded[key] ELSE <<>>

\* one RecordValue("http_request_duration_ms", value, labels) call
RecordSample(labels, value) ==
    /\ LET key == CreateKey("http_request_duration_ms", labels)
       IN  /\ Len(RecordedFor(key)) < HistogramCapacity + ExtraSamples
           /\ recorded' = IF key \in DOMAIN recorded
                          THEN [recorded EXCEPT ![key] = Append(@, value)]
                          ELSE recorded @@ (key :> <<value>>)
    /\ histograms' = RecordValue(histograms, "http_request_duration_ms", value, labels)
    /\ UNCHANGED <<limiterVars, nodeMetrics, nodeRequests, counters, csRequests, stack>>
    /\ UNCHANGED <<counterVars, percentileVars>>
    /\ UNCHANGED <<snapshotVars, burstVars>>
    /\ UNCHANGED <<scanVars, raceVars>>

NextHistogram ==
    \E labels \in SeriesLabels, value \in SampleValues : RecordSample(labels, value)

SpecHistogram == InitHistogram /\ [][NextHistogram]_vars

-----------------------------------------------------------------------------
(* GetSnapshot on one histogram series *)

\* largest sample array a snapshot run reads
MaxSamples == 5

Samples == {10, 20, 30, 40, 50}

\* values.OrderBy(x => x).ToArray()
RECURSIVE Insert(_, _)
Insert(sorted, x) ==
    IF Len(sorted) = 0 THEN <<x>>
    ELSE IF x < sorted[1] THEN <<x>> \o sorted
    ELSE <<sorted[1]>> \o Insert(Tail(sorted), x)

RECURSIVE OrderBy(_)
OrderBy(array) ==
    IF Len(array) = 0 THEN <<>>
    ELSE Insert(OrderBy(SubSeq(array, 1, Len(array) - 1)), array[Len(array)])

\* an index that truncates instead of rounding up
PercentileIndexTruncated(percentile, length) == (percentile * length) \div 100

\* (int)Math.Ceiling(percentile * sorted.Length) - 1, percentile in hundredths
PercentileIndex(percentile, length) == Ceil(percentile * length, 100) - 1

\* CalculatePercentile; arrays are 0-based in the program, sequences 1-based here
CalculatePercentile(array, percentile) ==
    IF Len(array) = 0 THEN 0
    ELSE IF Len(array) = 1 THEN array[1]
    ELSE LET sorted == OrderBy(array)
             index == PercentileIndex(percentile, Len(sorted))
         IN  sorted[Max(0, Min(index, Len(sorted) - 1)) + 1]

RECURSIVE SeqSum(_)
SeqSum(array) == IF Len(array) = 0 THEN 0 ELSE array[1] + SeqSum(Tail(array))

SeqMin(array) == CHOOSE x \in {array[i] : i \in DOMAIN array} :
                    \A i \in DOMAIN array : x <= array[i]
SeqMax(array) == CHOOSE x \in {array[i] : i \in DOMAIN array} :
                    \A i \in DOMAIN array : x >= array[i]

\* new HistogramData {...}; Average is the quotient Sum / Count
HistogramData(array) ==
    [Count |-> Len(array),
     Sum |-> SeqSum(array),
     Average |-> <<SeqSum(array), Len(array)>>,
     Min |-> SeqMin(array),
     Max |-> SeqMax(array),
     P50 |-> CalculatePercentile(array, 50),
     P95 |-> CalculatePercentile(array, 95),
     P99 |-> CalculatePercentile(array, 99)]

\* no snapshot taken yet
NoStats == [Count |-> 0, Sum |-> 0, Average |-> <<0, 1>>, Min |-> 0, Max |-> 0,
            P50 |-> 0, P95 |-> 0, P99 |-> 0]

SampleArrays == UNION {[1..n -> Samples] : n \in 1..MaxSamples}

InitSnapshot ==
    /\ IdleLimiter
    /\ IdleMetrics
    /\ IdleCounter
    /\ values \in SampleArrays
    /\ stats = NoStats
    /\ IdleSnapshot
    /\ IdleBurst
    /\ IdleScan
    /\ IdleRace

\* the body of GetSnapshot's loop for a series holding `values`
SnapshotSeries ==
    /\ stats = NoStats
    /\ stats' = HistogramData(values)
    /\ UNCHANGED <<limiterVars, metricsVars, counterVars, values>>
    /\ UNCHANGED <<snapshotVars, burstVars>>
    /\ UNCHANGED <<scanVars, raceVars>>

NextSnapshot == SnapshotSeries

SpecSnapshot == InitSnapshot /\ [][NextSnapshot]_vars

-----------------------------------------------------------------------------
(* The metrics store of one service and its metrics endpoint, one call at a   *)
(* time: updates through IncrementCounter / RecordValue (C#) or through the   *)
(* metrics middleware (Node), and reads through GetSnapshot / GET /metrics.   *)

\* number of metric updates a run of the service makes
MaxUpdates == 3

\* label values; "a_a" holds the separator CreateKey joins with
LabelLists == {<<"GET", "/a">>, <<"/a", "GET">>, <<"a", "a_a">>, <<"a_a", "a">>}

\* the counters the service increments; the name "hits_a" holds the separator
CounterSeries ==
    {[name |-> "hits", labels |-> labels] : labels \in LabelLists}
        \cup {[name |-> "hits_a", labels |-> <<"a_a">>]}

\* no snapshot returned yet
NoSnapshot == <<>>

\* the keys of the series that hold at least one sample
NonEmptySeries(table) == {key \in DOMAIN table : Len(table[key]) > 0}

\* a snapshot that reports each counter per tick of uptime
GetSnapshotPerTick(counterTable, histogramTable, t) ==
    [Timestamp |-> t,
     Uptime |-> t - 0,
     Counters |-> [key \in DOMAIN counterTable |-> counterTable[key] \div (t + 1)],
     Histograms |-> [key \in NonEmptySeries(histogramTable) |->
                        HistogramData(histogramTable[key])]]

\* MetricsService.GetSnapshot: a copy of the counters, statistics per series
GetSnapshot(counterTable, histogramTable, t) ==
    [Timestamp |-> t,
     Uptime |-> t - 0,
     Counters |-> counterTable,
     Histograms |-> [key \in NonEmptySeries(histogramTable) |->
                        HistogramData(histogramTable[key])]]

\* rateLimitStore.size
StoreSize(store) == Cardinality({k \in DOMAIN store : store[k] # NoEntry})

\* app.get('/metrics'): the metrics object, uptime, limiter summary, timestamp
GetMetrics(metrics, store, t) ==
    [requests |-> metrics.requests,
     responseTime |-> metrics.responseTime,
     errors |-> metrics.errors,
     uptime |-> [milliseconds |-> t - metrics.uptime,
                 seconds |-> (t - metrics.uptime) \div TicksPerSecond],
     rateLimiting |-> [activeClients |-> StoreSize(store),
                       windowMs |-> RATE_LIMIT_WINDOW,
                       maxRequests |-> RATE_LIMIT_MAX_REQUESTS],
     timestamp |-> ToISOString(t)]

\* a snapshot whose Counters is the live dictionary itself, not a copy of it
HeldSnapshotAliased(snap, counterTable, histogramTable) ==
    IF snap = NoSnapshot THEN snap ELSE [snap EXCEPT !.Counters = counterTable]

\* C#: the MetricsSnapshot a caller holds, seen after later updates of the
\* store: Counters is a new Dictionary copied from _counters, and each
\* HistogramData was computed from a ToArray() copy of its series
HeldSnapshot(snap, counterTable, histogramTable) == snap

\* Node: the answer a caller holds, seen after later updates of the metrics
\* object: res.json serialised the object before the handler returned
HeldBody(body, metrics) == body


\* number of updates the C# store has received
ServiceUpdates ==
    Sum(counters, DOMAIN counters)
      + Sum([key \in DOMAIN recorded |-> Len(recorded[key])], DOMAIN recorded)

InitService ==
    /\ IdleLimiter
    /\ stack \in Stacks
    /\ nodeMetrics = InitialMetrics
    /\ nodeRequests = <<>>
    /\ counters = <<>>
    /\ histograms = <<>>
    /\ csRequests = <<>>
    /\ recorded = <<>>
    /\ IdleCounter
    /\ IdlePercentile
    /\ snapshot = NoSnapshot
    /\ written = FALSE
    /\ recorders = <<>>
    /\ held = <<>>
    /\ IdleBurst
    /\ IdleScan
    /\ IdleRace

\* C#: one IncrementCounter(name, labels) call
ServiceIncrement(name, labels) ==
    /\ stack = "cs"
    /\ ServiceUpdates < MaxUpdates
    /\ counters' = IncrementCounter(counters, name, labels)
    /\ snapshot' = HeldSnapshot(snapshot, counters', histograms')
    /\ written' = TRUE
    /\ UNCHANGED <<limiterVars, nodeMetrics, nodeRequests, histograms, csRequests, stack,
                   recorded, counterVars, percentileVars, recorders, held, burstVars>>
    /\ UNCHANGED <<scanVars, raceVars>>

\* C#: one RecordValue(name, value, labels) call
ServiceRecord(name, labels, value) ==
    /\ stack = "cs"
    /\ ServiceUpdates < MaxUpdates
    /\ histograms' = RecordValue(histograms, name, value, labels)
    /\ LET key == CreateKey(name, labels)
       IN  recorded' = IF key \in DOMAIN recorded
                       THEN [recorded EXCEPT ![key] = Append(@, value)]
                       ELSE recorded @@ (key :> <<value>>)
    /\ snapshot' = HeldSnapshot(snapshot, counters', histograms')
    /\ written' = TRUE
    /\ UNCHANGED <<limiterVars, nodeMetrics, nodeRequests, counters, csRequests, stack,
                   counterVars, percentileVars, recorders, held, burstVars>>
    /\ UNCHANGED <<scanVars, raceVars>>

\* C#: the metrics endpoint calls GetSnapshot
ServiceSnapshot ==
    /\ stack = "cs"
    /\ snapshot' = GetSnapshot(counters, histograms, now)
    /\ written' = FALSE
    /\ UNCHANGED <<limiterVars, metricsVars, counterVars, percentileVars, recorders, held,
                   burstVars>>
    /\ UNCHANGED <<scanVars, raceVars>>

\* Node: a request is tracked by metricsMiddleware and its response ended
NodeServe(route, startTime, statusCode) ==
    /\ stack = "node"
    /\ nodeMetrics.requests.total < MaxUpdates
    /\ startTime <= now
    /\ nodeMetrics' = ResEnd(MetricsMiddleware(nodeMetrics, route), startTime, now,
                             statusCode)
    /\ snapshot' = HeldBody(snapshot, nodeMetrics')
    /\ written' = TRUE
    /\ UNCHANGED <<limiterVars, nodeRequests, counters, histograms, csRequests, stack,
                   recorded, counterVars, percentileVars, recorders, held, burstVars>>
    /\ UNCHANGED <<scanVars, raceVars>>

\* Node: the handler of GET /metrics builds its answer
NodeSnapshot ==
    /\ stack = "node"
    /\ snapshot' = GetMetrics(nodeMetrics, rateLimitStore, now)
    /\ written' = FALSE
    /\ UNCHANGED <<limiterVars, metricsVars, counterVars, percentileVars, recorders, held,
                   burstVars>>
    /\ UNCHANGED <<scanVars, raceVars>>

NextService ==
    \/ PipelineTick
    \/ \E series \in CounterSeries : ServiceIncrement(series.name, series.labels)
    \/ \E value \in SampleValues : ServiceRecord("latency", <<"GET", "/a">>, value)
    \/ ServiceSnapshot
    \/ \E route \in Routes, startTime \in 0..MaxLatency, statusCode \in Statuses :
          NodeServe(route, startTime, statusCode)
    \/ NodeSnapshot

SpecService == InitService /\ [][NextService]_vars

-----------------------------------------------------------------------------
(* Concurrent RecordValue calls on one series, and a GetSnapshot among them.  *)
(* AddOrUpdate runs the update delegate outside any lock, and the delegate    *)
(* changes the List<double> it is handed in place: Add stores the new length  *)
(* and then the item, RemoveAt(0) lowers the length and then moves the items  *)
(* down.  Nothing orders these steps of one caller against those of another   *)
(* caller or against the ToArray of GetSnapshot.  A List<double> is shown     *)
(* here with its two fields, the array _items and the length _size; slots     *)
(* never written hold default(double) = 0.                                    *)

\* number of concurrent RecordValue callers
NumRecorders == 2

Recorders == 1..NumRecorders

\* the route of the requests whose durations are recorded
RecorderRoute == [method |-> "GET", path |-> "/api/users"]

\* the series all recorders write to
RecorderKey == CreateKey("http_request_duration_ms", <<"GET", "/api/users">>)

\* the counters after n requests of the route finished with status 200 and
\* NumRecorders more have been counted by MetricsMiddleware on entry
CountersAfter(n) ==
    LET requestsTotal == CreateKey("http_requests_total",
                                   <<RecorderRoute.method, RecorderRoute.path>>)
        responsesTotal == CreateKey("http_responses_total",
                                    <<RecorderRoute.method, RecorderRoute.path,
                                      StatusText[200]>>)
    IN  IF n = 0
        THEN (requestsTotal :> NumRecorders)
        ELSE (requestsTotal :> n + NumRecorders) @@ (responsesTotal :> n)

\* the sample recorder p hands to RecordValue
SampleOf(p) == 10 * p

\* length of the array behind a list: room for every item the callers can
\* add, and one slot more, as the array of the program grows ahead of the list
ListSlots == HistogramCapacity + NumRecorders + 1

\* new List<double> holding the given samples
NewList(samples) ==
    [items |-> [i \in 1..ListSlots |-> IF i <= Len(samples) THEN samples[i] ELSE 0],
     size |-> Len(samples)]

\* List<double>.ToArray(): the first _size items
ToArray(list) == SubSeq(list.items, 1, list.size)

\* Array.Copy(_items, 1, _items, 0, _size): the items move down by one
ShiftDown(list) ==
    [list EXCEPT !.items = [i \in 1..ListSlots |->
                               IF i <= list.size THEN list.items[i + 1] ELSE list.items[i]]]

\* the series the store holds before the concurrent calls: samples 1, 2, ...
EarlierSamples == {[i \in 1..n |-> i] : n \in 0..HistogramCapacity}

InitRecorder ==
    /\ IdleLimiter
    /\ nodeMetrics = <<>>
    /\ nodeRequests = <<>>
    /\ \E samples \in EarlierSamples :
          /\ held = samples
          /\ counters = CountersAfter(Len(samples))
          /\ histograms = IF Len(samples) = 0 THEN <<>>
                          ELSE (RecorderKey :> NewList(samples))
    /\ csRequests = <<>>
    /\ stack = "cs"
    /\ recorded = <<>>
    /\ IdleCounter
    /\ IdlePercentile
    /\ snapshot = NoSnapshot
    /\ written = FALSE
    /\ recorders = [p \in Recorders |-> [pc |-> "call", value |-> SampleOf(p), size |-> 0]]
    /\ IdleBurst
    /\ IdleScan
    /\ IdleRace

\* what a step of a recorder leaves alone
RecorderFrame ==
    UNCHANGED <<limiterVars, nodeMetrics, nodeRequests, csRequests, stack,
                recorded, counterVars, percentileVars, snapshot, written, held, burstVars,
                scanVars, raceVars>>

\* AddOrUpdate reads the entry of the key
RecorderGet(p) ==
    /\ recorders[p].pc = "call"
    /\ recorders' = [recorders EXCEPT
            ![p].pc = IF RecorderKey \in DOMAIN histograms THEN "read" ELSE "add"]
    /\ UNCHANGED histograms
    /\ UNCHANGED counters
    /\ RecorderFrame

\* AddOrUpdate adds new List<double> { value } if the key is still absent
RecorderAdd(p) ==
    /\ recorders[p].pc = "add"
    /\ IF RecorderKey \notin DOMAIN histograms
       THEN /\ histograms' = histograms @@ (RecorderKey :> NewList(<<recorders[p].value>>))
            /\ recorders' = [recorders EXCEPT ![p].pc = "done"]
       ELSE /\ histograms' = histograms
            /\ recorders' = [recorders EXCEPT ![p].pc = "call"]
    /\ UNCHANGED counters
    /\ RecorderFrame

\* current.Add(value): read the length
AddReadSize(p) ==
    /\ recorders[p].pc = "read"
    /\ recorders' = [recorders EXCEPT ![p].pc = "size",
                                      ![p].size = histograms[RecorderKey].size]
    /\ UNCHANGED histograms
    /\ UNCHANGED counters
    /\ RecorderFrame

\* current.Add(value): store the new length
AddWriteSize(p) ==
    /\ recorders[p].pc = "size"
    /\ histograms' = [histograms EXCEPT ![RecorderKey].size = recorders[p].size + 1]
    /\ recorders' = [recorders EXCEPT ![p].pc = "item"]
    /\ UNCHANGED counters
    /\ RecorderFrame

\* current.Add(value): store the item
AddWriteItem(p) ==
    /\ recorders[p].pc = "item"
    /\ histograms' = [histograms EXCEPT
            ![RecorderKey].items[recorders[p].size + 1] = recorders[p].value]
    /\ recorders' = [recorders EXCEPT ![p].pc = "count"]
    /\ UNCHANGED counters
    /\ RecorderFrame

\* if (current.Count > 1000)
CheckCount(p) ==
    /\ recorders[p].pc = "count"
    /\ recorders' = [recorders EXCEPT
            ![p].pc = IF histograms[RecorderKey].size > HistogramCapacity
                      THEN "remove" ELSE "update"]
    /\ UNCHANGED histograms
    /\ UNCHANGED counters
    /\ RecorderFrame

\* current.RemoveAt(0): lower the length
RemoveAtSize(p) ==
    /\ recorders[p].pc = "remove"
    /\ histograms' = [histograms EXCEPT ![RecorderKey].size = @ - 1]
    /\ recorders' = [recorders EXCEPT ![p].pc = "shift"]
    /\ UNCHANGED counters
    /\ RecorderFrame

\* current.RemoveAt(0): move the items down
RemoveAtShift(p) ==
    /\ recorders[p].pc = "shift"
    /\ histograms' = [histograms EXCEPT ![RecorderKey] = ShiftDown(@)]
    /\ recorders' = [recorders EXCEPT ![p].pc = "update"]
    /\ UNCHANGED counters
    /\ RecorderFrame

\* AddOrUpdate stores the delegate's result: the same list object, so the
\* comparison with the value read succeeds
RecorderUpdate(p) ==
    /\ recorders[p].pc = "update"
    /\ recorders' = [recorders EXCEPT ![p].pc = "done"]
    /\ UNCHANGED histograms
    /\ UNCHANGED counters
    /\ RecorderFrame

\* MetricsMiddleware after RecordValue returned: the response counter
RecorderRespond(p) ==
    /\ recorders[p].pc = "done"
    /\ counters' = IncrementCounter(counters, "http_responses_total",
                                    <<RecorderRoute.method, RecorderRoute.path,
                                      StatusText[200]>>)
    /\ recorders' = [recorders EXCEPT ![p].pc = "counted"]
    /\ UNCHANGED histograms
    /\ RecorderFrame

\* the sample arrays GetSnapshot's loop obtains: kvp.Value.ToArray()
SampleArraysRead(table) == [key \in DOMAIN table |-> ToArray(table[key])]

\* GetSnapshot runs among the recorders' steps
RecorderSnapshot ==
    /\ snapshot = NoSnapshot
    /\ snapshot' = GetSnapshot(counters, SampleArraysRead(histograms), now)
    /\ UNCHANGED <<limiterVars, metricsVars, counterVars, percentileVars, written,
                   recorders, held, burstVars>>
    /\ UNCHANGED <<scanVars, raceVars>>

NextRecorder ==
    \/ \E p \in Recorders : RecorderGet(p)
    \/ \E p \in Recorders : RecorderAdd(p)
    \/ \E p \in Recorders : AddReadSize(p)
    \/ \E p \in Recorders : AddWriteSize(p)
    \/ \E p \in Recorders : AddWriteItem(p)
    \/ \E p \in Recorders : CheckCount(p)
    \/ \E p \in Recorders : RemoveAtSize(p)
    \/ \E p \in Recorders : RemoveAtShift(p)
    \/ \E p \in Recorders : RecorderUpdate(p)
    \/ \E p \in Recorders : RecorderRespond(p)
    \/ RecorderSnapshot

SpecRecorder == InitRecorder /\ [][NextRecorder]_vars

-----------------------------------------------------------------------------
(* One client's requests at the two limiters, with the number of requests    *)
(* each limiter admitted at each of the last WindowTicks + 1 clock ticks:     *)
(* the instants of a closed interval of length windowDuration ending now.     *)

\* the offsets, back from now, of the instants of such an interval
Offsets == 0..WindowTicks

NoAdmissions == [stk \in Stacks |-> [i \in Offsets |-> 0]]

\* the client whose admissions are counted
BurstClients == {"10.0.0.1"}

InitBurst ==
    /\ now = 0
    /\ rateLimitStore = [c \in Clients |-> NoEntry]
    /\ clients = [c \in Clients |-> NoEntry]
    /\ nodeResp = [c \in Clients |-> NoResponse]
    /\ csResp = [c \in Clients |-> NoResponse]
    /\ issued = <<>>
    /\ firstAt = <<>>
    /\ IdleMetrics
    /\ IdleCounter
    /\ IdlePercentile
    /\ IdleSnapshot
    /\ admitted = NoAdmissions
    /\ IdleScan
    /\ IdleRace

\* time passes: every counted instant is one tick further back
BurstTick ==
    /\ now < MaxTime
    /\ now' = now + 1
    /\ admitted' = [stk \in Stacks |->
                      [i \in Offsets |-> IF i = 0 THEN 0 ELSE admitted[stk][i - 1]]]
    /\ UNCHANGED <<rateLimitStore, clients, nodeResp, csResp, issued, firstAt>>
    /\ UNCHANGED <<metricsVars, counterVars, percentileVars, snapshotVars>>
    /\ UNCHANGED <<scanVars, raceVars>>

\* a request of the client reaches the limiter of either stack
BurstRequest(c) ==
    /\ LET node == RateLimiter(rateLimitStore, c, now)
           cs == RateLimitingInvoke(clients, c, now)
       IN  /\ rateLimitStore' = node.store
           /\ nodeResp' = [nodeResp EXCEPT ![c] = node.resp]
           /\ clients' = cs.store
           /\ csResp' = [csResp EXCEPT ![c] = cs.resp]
           /\ admitted' = [admitted EXCEPT
                             !["node"][0] = IF node.resp.next THEN @ + 1 ELSE @,
                             !["cs"][0] = IF cs.resp.next THEN @ + 1 ELSE @]
    /\ UNCHANGED <<now, issued, firstAt>>
    /\ UNCHANGED <<metricsVars, counterVars, percentileVars, snapshotVars>>
    /\ UNCHANGED <<scanVars, raceVars>>

NextBurst ==
    \/ BurstTick
    \/ \E c \in BurstClients : BurstRequest(c)

SpecBurst == InitBurst /\ [][NextBurst]_vars

-----------------------------------------------------------------------------
(* Each limiter next to a copy of itself that never runs the cleanup scan.    *)
(* Both receive the same requests; `unscanned` holds the tables of the two    *)
(* copies and the response each of them gave last.                            *)

\* rateLimiter without its "Clean up old entries" loop
NodeScanFree(store, c, t) ==
    LET data == NodeResetExpired(NodeGetOrCreate(store, c, t)[c], t)
        kept == [store EXCEPT ![c] = data]
    IN  IF NodeLimitExceeded(data)
        THEN [store |-> kept, resp |-> NodeRejection(data, t)]
        ELSE LET counted == [data EXCEPT !.count = @ + 1]
             IN  [store |-> [kept EXCEPT ![c] = counted],
                  resp |-> NodeAdmission(counted)]

\* RateLimitingMiddleware.InvokeAsync without the call of CleanExpiredEntries
CsScanFree(table, c, t) ==
    LET limit == CsResetExpired(GetOrAdd(table, c, t)[c], t)
        kept == [table EXCEPT ![c] = limit]
    IN  IF CsLimitExceeded(limit)
        THEN [store |-> kept, resp |-> CsRejection(limit)]
        ELSE LET counted == [limit EXCEPT !.count = @ + 1]
             IN  [store |-> [kept EXCEPT ![c] = counted],
                  resp |-> CsAdmission(counted)]

InitScan ==
    /\ now = 0
    /\ rateLimitStore = [c \in Clients |-> NoEntry]
    /\ clients = [c \in Clients |-> NoEntry]
    /\ nodeResp = [c \in Clients |-> NoResponse]
    /\ csResp = [c \in Clients |-> NoResponse]
    /\ issued = <<>>
    /\ firstAt = <<>>
    /\ IdleMetrics
    /\ IdleCounter
    /\ IdlePercentile
    /\ IdleSnapshot
    /\ IdleBurst
    /\ unscanned = [node |-> [c \in Clients |-> NoEntry],
                    cs |-> [c \in Clients |-> NoEntry],
                    nodeResp |-> NoResponse,
                    csResp |-> NoResponse]
    /\ IdleRace

\* time passes
ScanTick ==
    /\ now < MaxTime
    /\ now' = now + 1
    /\ UNCHANGED <<rateLimitStore, clients, nodeResp, csResp, issued, firstAt>>
    /\ UNCHANGED <<metricsVars, counterVars, percentileVars, snapshotVars, burstVars>>
    /\ UNCHANGED <<scanVars, raceVars>>

\* a request of client c reaches the four limiters
ScanRequest(c) ==
    /\ LET node == RateLimiter(rateLimitStore, c, now)
           cs == RateLimitingInvoke(clients, c, now)
           nodeFree == NodeScanFree(unscanned.node, c, now)
           csFree == CsScanFree(unscanned.cs, c, now)
       IN  /\ rateLimitStore' = node.store
           /\ nodeResp' = [nodeResp EXCEPT ![c] = node.resp]
           /\ clients' = cs.store
           /\ csResp' = [csResp EXCEPT ![c] = cs.resp]
           /\ unscanned' = [node |-> nodeFree.store, cs |-> csFree.store,
                            nodeResp |-> nodeFree.resp, csResp |-> csFree.resp]
    /\ UNCHANGED <<now, issued, firstAt>>
    /\ UNCHANGED <<metricsVars, counterVars, percentileVars, snapshotVars, burstVars>>
    /\ UNCHANGED raceVars

NextScan ==
    \/ ScanTick
    \/ \E c \in Clients : ScanRequest(c)

SpecScan == InitScan /\ [][NextScan]_vars

-----------------------------------------------------------------------------
(* Concurrent requests at the C# limiter.  _clients holds references to       *)
(* ClientRateLimit objects: `heap` is the sequence of the objects created so  *)
(* far and, in this specification, `clients` maps a client to the index of    *)
(* its object.  A request reads the clock, scans the dictionary for expired   *)
(* keys, removes the keys it collected, gets or adds its entry and then runs  *)
(* the block under lock (clientLimit); another request can run between any    *)
(* two of these steps.  Passing the limiter takes far less than one clock     *)
(* tick, so the clock moves only while no request is inside it.               *)

\* requests inside the limiter at the same time
NumThreads == 2

Threads == 1..NumThreads

\* number of requests a run sends
MaxRaceRequests == QuotaSize + 2

\* the client whose requests race
RaceClients == {"10.0.0.1"}

\* the dictionary holds no entry for the key
Null == 0

NoAdmissionTimes == [t \in 0..MaxTime |-> 0]

\* a thread that is not handling a request
IdleThread == [pc |-> "idle", clientId |-> "", now |-> 0, keysToRemove |-> {},
               clientLimit |-> Null, resp |-> NoResponse]

\* number of requests that have entered the limiter
RaceRequests == Sum(admitted, 0..MaxTime) + Cardinality({p \in Threads : threads[p].pc # "idle"})
                  + heap.rejected

InitRace ==
    /\ now = 0
    /\ rateLimitStore = <<>>
    /\ clients = [c \in RaceClients |-> Null]
    /\ nodeResp = <<>>
    /\ csResp = <<>>
    /\ issued = <<>>
    /\ firstAt = <<>>
    /\ IdleMetrics
    /\ IdleCounter
    /\ IdlePercentile
    /\ IdleSnapshot
    /\ admitted = NoAdmissionTimes
    /\ IdleScan
    /\ heap = [objects |-> <<>>, rejected |-> 0]
    /\ threads = [p \in Threads |-> IdleThread]

\* what no step of a racing request changes
RaceFrame ==
    UNCHANGED <<rateLimitStore, nodeResp, csResp, issued, firstAt, metricsVars,
                counterVars, percentileVars, snapshotVars, scanVars>>

\* time passes while no request is inside the limiter
RaceTick ==
    /\ now < MaxTime
    /\ \A p \in Threads : threads[p].pc = "idle"
    /\ now' = now + 1
    /\ UNCHANGED <<clients, admitted, heap, threads>>
    /\ RaceFrame

\* var clientId = GetClientId(context); var now = DateTime.UtcNow;
RaceBegin(p, c) ==
    /\ threads[p].pc = "idle"
    /\ RaceRequests < MaxRaceRequests
    /\ threads' = [threads EXCEPT ![p] = [IdleThread EXCEPT !.pc = "scan",
                                                            !.clientId = c,
                                                            !.now = now]]
    /\ UNCHANGED <<now, clients, admitted, heap>>
    /\ RaceFrame

\* CleanExpiredEntries, first loop: collect the keys of the expired entries
RaceScan(p) ==
    /\ threads[p].pc = "scan"
    /\ threads' = [threads EXCEPT
          ![p].pc = "remove",
          ![p].keysToRemove =
              {k \in RaceClients :
                  /\ clients[k] # Null
                  /\ TotalMinutes(threads[p].now, heap.objects[clients[k]].windowStart)
                       >= WindowMinutes * 2}]
    /\ UNCHANGED <<now, clients, admitted, heap>>
    /\ RaceFrame

\* CleanExpiredEntries, second loop: _clients.TryRemove(key, out _) per key
RaceRemove(p) ==
    /\ threads[p].pc = "remove"
    /\ clients' = [k \in RaceClients |->
                      IF k \in threads[p].keysToRemove THEN Null ELSE clients[k]]
    /\ threads' = [threads EXCEPT ![p].pc = "getOrAdd", ![p].keysToRemove = {}]
    /\ UNCHANGED <<now, admitted, heap>>
    /\ RaceFrame

\* var clientLimit = _clients.GetOrAdd(clientId, _ => new ClientRateLimit {...})
RaceGetOrAdd(p) ==
    /\ threads[p].pc = "getOrAdd"
    /\ LET c == threads[p].clientId
           created == [count |-> 0, windowStart |-> threads[p].now]
       IN  IF clients[c] = Null
           THEN /\ heap' = [heap EXCEPT !.objects = Append(@, created)]
                /\ clients' = [clients EXCEPT ![c] = Len(heap.objects) + 1]
                /\ threads' = [threads EXCEPT ![p].pc = "lock",
                                              ![p].clientLimit = Len(heap.objects) + 1]
           ELSE /\ threads' = [threads EXCEPT ![p].pc = "lock",
                                              ![p].clientLimit = clients[c]]
                /\ UNCHANGED <<clients, heap>>
    /\ UNCHANGED <<now, admitted>>
    /\ RaceFrame

\* lock (clientLimit) { reset if expired; 429 if over the limit; RequestCount++ }
RaceLocked(p) ==
    /\ threads[p].pc = "lock"
    /\ LET ref == threads[p].clientLimit
           limit == CsResetExpired(heap.objects[ref], threads[p].now)
       IN  IF CsLimitExceeded(limit)
           THEN /\ heap' = [heap EXCEPT !.objects[ref] = limit, !.rejected = @ + 1]
                /\ threads' = [threads EXCEPT ![p] = [IdleThread EXCEPT
                                                        !.resp = CsRejection(limit)]]
                /\ UNCHANGED admitted
           ELSE LET counted == [limit EXCEPT !.count = @ + 1]
                IN  /\ heap' = [heap EXCEPT !.objects[ref] = counted]
                    /\ threads' = [threads EXCEPT ![p] = [IdleThread EXCEPT
                                                            !.resp = CsAdmission(counted)]]
                    /\ admitted' = [admitted EXCEPT ![now] = @ + 1]
    /\ UNCHANGED <<now, clients>>
    /\ RaceFrame

NextRace ==
    \/ RaceTick
    \/ \E p \in Threads, c \in RaceClients : RaceBegin(p, c)
    \/ \E p \in Threads : RaceScan(p)
    \/ \E p \in Threads : RaceRemove(p)
    \/ \E p \in Threads : RaceGetOrAdd(p)
    \/ \E p \in Threads : RaceLocked(p)

SpecRace == InitRace /\ [][NextRace]_vars

-----------------------------------------------------------------------------
(* Claims about the limiters *)

\* the window of client c is the same one before and after the step
SameWindow(before, after, c) ==
    /\ before[c] # NoEntry
    /\ after[c].windowStart = before[c].windowStart

\* r = ceil(d / TicksPerSecond), by its defining inequalities
IsCeilSeconds(r, d) == (r - 1) * TicksPerSecond < d /\ d <= r * TicksPerSecond

\* C1: a client that has issued at most maxRequests requests, all of them less
\* than one windowDuration after its first, has every one admitted by both
\* stacks, each with a remaining value 1 below that of its previous request.
C1_WithinQuotaAdmitted ==
    [][\A c \in Clients :
        (/\ LimiterRequest(c)
         /\ issued'[c] <= QuotaSize
         /\ now - firstAt'[c] < WindowTicks)
        => /\ nodeResp'[c].next /\ nodeResp'[c].status # 429
           /\ csResp'[c].next /\ csResp'[c].status # 429
           /\ issued[c] >= 1 =>
                /\ nodeResp'[c].remaining = nodeResp[c].remaining - 1
                /\ csResp'[c].remaining = csResp[c].remaining - 1]_vars

\* C1 witness: a client has spent its whole quota inside one window
C1_Witness ==
    \E c \in Clients :
        /\ issued[c] = QuotaSize
        /\ now - firstAt[c] < WindowTicks /\ now > firstAt[c]
        /\ nodeResp[c].next /\ nodeResp[c].remaining = 0
        /\ csResp[c].next /\ csResp[c].remaining = 0

\* C2: in the Node stack (the one whose rejection carries retryAfter), the
\* request that follows maxRequests admitted ones in a window the limiter does
\* not reset is rejected with 429 and retryAfter > 0.
C2_RejectionRetryAfterPositive ==
    [][\A c \in Clients :
        (/\ LimiterRequest(c)
         /\ SameWindow(rateLimitStore, rateLimitStore', c)
         /\ rateLimitStore[c].count = QuotaSize)
        => /\ nodeResp'[c].status = 429
           /\ nodeResp'[c].retryAfter > 0]_vars

\* C3: a request arriving with now - windowStart >= windowDuration resets the
\* window to {windowStart: now, count: 0} first, so it is admitted with
\* remaining = maxRequests - 1, in both stacks.
C3_ExpiredWindowResets ==
    [][\A c \in Clients :
        /\ (/\ LimiterRequest(c)
            /\ rateLimitStore[c] # NoEntry
            /\ now - rateLimitStore[c].windowStart >= WindowTicks)
           => /\ rateLimitStore'[c] = [count |-> 1, windowStart |-> now]
              /\ nodeResp'[c].next
              /\ nodeResp'[c].remaining = QuotaSize - 1
        /\ (/\ LimiterRequest(c)
            /\ clients[c] # NoEntry
            /\ now - clients[c].windowStart >= WindowTicks)
           => /\ clients'[c] = [count |-> 1, windowStart |-> now]
              /\ csResp'[c].next
              /\ csResp'[c].remaining = QuotaSize - 1]_vars

\* the decision rule of Admit for one stack: table and response before/after
AdmitRule(before, after, resp, c, t) ==
    LET count == IF SameWindow(before, after, c) THEN before[c].count ELSE 0
    IN  IF count >= QuotaSize
        THEN /\ ~resp.next
             /\ resp.status = 429
             /\ resp.remaining = 0
             /\ IsCeilSeconds(resp.retryAfter, after[c].windowStart + WindowTicks - t)
             /\ after[c].count = count
        ELSE /\ resp.next
             /\ resp.status # 429
             /\ after[c].count = count + 1
             /\ resp.remaining = QuotaSize - after[c].count

\* C5: every decision of either stack follows the rule: count >= maxRequests
\* gives a 429 with remaining 0 and retryAfter = ceil((windowStart +
\* windowDuration - now) / 1000); otherwise count grows by 1 and the request
\* is admitted with remaining = maxRequests - count.
C5_AdmitFollowsRule ==
    [][\A c \in Clients :
        LimiterRequest(c)
        => /\ AdmitRule(rateLimitStore, rateLimitStore', nodeResp'[c], c, now)
           /\ AdmitRule(clients, clients', csResp'[c], c, now)]_vars

\* X-RateLimit-Reset read back as an instant
Instant(ts) == ts.seconds * TicksPerSecond + ts.fraction

\* the three rate-limit headers of a response, against the client's window
HeadersMatch(table, resp, c) ==
    /\ resp.limit = QuotaSize
    /\ resp.remaining = IF resp.next THEN QuotaSize - table[c].count ELSE 0
    /\ resp.reset # NoTimestamp
    /\ Instant(resp.reset) = table[c].windowStart + WindowTicks

\* C6: every response of either limiter, admitted or rejected, carries
\* X-RateLimit-Limit = maxRequests, X-RateLimit-Remaining = the remaining of
\* the decision (0 on rejection) and X-RateLimit-Reset = windowStart +
\* windowDuration of the client's window as it stands after the decision.
C6_HeadersOnEveryResponse ==
    [][\A c \in Clients :
        LimiterRequest(c)
        => /\ HeadersMatch(rateLimitStore', nodeResp'[c], c)
           /\ HeadersMatch(clients', csResp'[c], c)]_vars

\* C6 witness: one client was just rejected late in its window, the other admitted
C6_Witness ==
    \E c, d \in Clients :
        /\ nodeResp[c].status = 429 /\ csResp[c].status = 429
        /\ rateLimitStore[c].windowStart < now
        /\ Instant(nodeResp[c].reset) = rateLimitStore[c].windowStart + WindowTicks
        /\ nodeResp[d].next /\ csResp[d].next
        /\ nodeResp[d].remaining = QuotaSize - 1

-----------------------------------------------------------------------------
(* Claims about the pipeline *)

\* C4: a request the limiter rejects changes no request counter, no status or
\* response counter and no latency sample, in either service.
C4_RejectionLeavesMetrics ==
    [][\A c \in PipelineClients, route \in Routes :
        /\ (NodeRequest(c, route) /\ nodeResp'[c].status = 429)
           => nodeMetrics' = nodeMetrics
        /\ (CsRequest(c, route) /\ csResp'[c].status = 429)
           => (counters' = counters /\ histograms' = histograms)]_vars

\* C4 witness: a rejection after admitted requests were counted and timed
C4_Witness ==
    /\ stack = "node"
    /\ nodeRequests.rejected >= 1
    /\ nodeResp["10.0.0.1"].status = 429
    /\ nodeMetrics.requests.total = QuotaSize
    /\ nodeMetrics.responseTime.count >= 1

\* the keys MetricsMiddleware uses for a route
RequestsKey(route) == CreateKey("http_requests_total", <<route.method, route.path>>)
DurationKey(route) == CreateKey("http_request_duration_ms", <<route.method, route.path>>)
ErrorsKey(route) == CreateKey("http_errors_total", <<route.method, route.path>>)
ResponsesKey(route, statusCode) ==
    CreateKey("http_responses_total", <<route.method, route.path, StatusText[statusCode]>>)

\* length of a histogram series (0 when the key is absent)
SeriesLength(table, key) == IF key \in DOMAIN table THEN Len(table[key]) ELSE 0

ResponsesCounted(route) ==
    Sum([st \in Statuses |-> CounterValue(counters, ResponsesKey(route, st))], Statuses)

-----------------------------------------------------------------------------
(* Claims about MetricsService *)

Finished(name) == {p \in DOMAIN callers : callers[p].name = name /\ callers[p].pc = "done"}

\* C8: no increment is lost: under every interleaving a counter holds its
\* initial value plus the number of IncrementCounter calls that have returned,
\* so n concurrent callers of one key leave it at its initial value plus n.
C8_NoLostIncrement ==
    \A name \in CounterNames :
        CounterValue(counters, CreateKey(name, <<>>))
            = CounterValue(started, CreateKey(name, <<>>)) + Cardinality(Finished(name))

\* C8 witness: every caller incremented the same, initially absent, counter
C8_Witness ==
    /\ \A p \in Callers : callers[p].pc = "done" /\ callers[p].name = "x"
    /\ "x" \notin DOMAIN started
    /\ counters["x"] = NumCallers

\* the last n elements of a sequence
LastN(seq, n) == SubSeq(seq, Len(seq) - n + 1, Len(seq))

\* C9: after k RecordValue calls on a series, the series holds exactly the
\* last min(k, N) recorded samples in insertion order.
C9_HistogramKeepsNewest ==
    /\ DOMAIN histograms = DOMAIN recorded
    /\ \A key \in DOMAIN recorded :
        histograms[key] = LastN(recorded[key], Min(Len(recorded[key]), HistogramCapacity))

\* C9 witness: a series received more samples than it can hold
C9_Witness ==
    \E key \in DOMAIN recorded :
        /\ Len(recorded[key]) = HistogramCapacity + ExtraSamples
        /\ Len(histograms[key]) = HistogramCapacity
        /\ recorded[key][1] # recorded[key][1 + ExtraSamples]

\* v is the nearest-rank percentile of the array: the rank-th smallest sample,
\* rank the least r in 1..n with r >= percentile * n / 100
IsNearestRank(array, percentile, v) ==
    LET n == Len(array)
        rank == CHOOSE r \in 1..n :
                    /\ 100 * r >= percentile * n
                    /\ r = 1 \/ 100 * (r - 1) < percentile * n
    IN  /\ \E i \in 1..n : array[i] = v
        /\ Cardinality({i \in 1..n : array[i] < v}) < rank
        /\ Cardinality({i \in 1..n : array[i] <= v}) >= rank

\* C10: for every non-empty sample array the snapshot's p50, p95 and p99 are
\* the nearest-rank elements of the samples sorted ascending; [10,20,30,40,50]
\* gives p50 = 30 and p95 = 50, and a single sample is its own percentile.
C10_NearestRankPercentile ==
    stats # NoStats =>
        /\ IsNearestRank(values, 50, stats.P50)
        /\ IsNearestRank(values, 95, stats.P95)
        /\ IsNearestRank(values, 99, stats.P99)
        /\ values = <<10, 20, 30, 40, 50>> => (stats.P50 = 30 /\ stats.P95 = 50)
        /\ Len(values) = 1 =>
             (stats.P50 = values[1] /\ stats.P95 = values[1] /\ stats.P99 = values[1])

\* C10 witness: the snapshot of the samples 10..50, recorded out of order
C10_Witness ==
    /\ values = <<50, 10, 40, 20, 30>>
    /\ stats # NoStats
    /\ stats.P50 = 30
    /\ stats.P95 = 50

-----------------------------------------------------------------------------
(* Claims about the metrics endpoint and the series keys *)

\* the counters and histogram statistics of two C# snapshots agree
SameReadings(a, b) == a.Counters = b.Counters /\ a.Histograms = b.Histograms

\* the counters and response-time statistics of two Node answers agree
SameMetrics(a, b) ==
    a.requests = b.requests /\ a.responseTime = b.responseTime /\ a.errors = b.errors

Reordered(a, b) ==
    /\ a # b
    /\ Len(a) = Len(b)
    /\ \A x \in {a[i] : i \in DOMAIN a} \cup {b[i] : i \in DOMAIN b} :
          Cardinality({i \in DOMAIN a : a[i] = x}) = Cardinality({i \in DOMAIN b : b[i] = x})

\* C12: two label lists holding the same values in a different order map to
\* different series keys, so an IncrementCounter through one ordering leaves
\* the series of the other ordering unchanged.
C12_LabelOrderSeparatesSeries ==
    [][\A a, b \in LabelLists :
        (ServiceIncrement("hits", a) /\ Reordered(a, b))
        => /\ CreateKey("hits", a) # CreateKey("hits", b)
           /\ CounterValue(counters', CreateKey("hits", b))
                = CounterValue(counters, CreateKey("hits", b))]_vars

-----------------------------------------------------------------------------
(* Claims about concurrent recording *)

\* every content the series can have if each RecordValue call acts as one
\* indivisible step: the earlier samples followed by the samples of some of
\* the callers, in some order, evicted by HistogramUpdate
RECURSIVE Outcomes(_, _)
Outcomes(content, waiting) ==
    {content} \cup
    UNION {Outcomes(HistogramUpdate(content, SampleOf(p)), waiting \ {p}) : p \in waiting}

\* C13: a GetSnapshot running among in-flight RecordValue calls never observes
\* a torn series: the statistics it reports for the series are those of a
\* content the series held at some instant, i.e. the earlier samples with the
\* samples of some of the callers appended whole, one call after another.
C13_SnapshotNeverTorn ==
    snapshot # NoSnapshot =>
        IF RecorderKey \in DOMAIN snapshot.Histograms
        THEN \E content \in Outcomes(held, Recorders) :
                /\ Len(content) > 0
                /\ snapshot.Histograms[RecorderKey] = HistogramData(content)
        ELSE held = <<>>

\* every recorder's call has returned
AllRecorded == \A p \in Recorders : recorders[p].pc \in {"done", "counted"}

\* C14: when n callers append to one series concurrently and the series stays
\* below its capacity, then after all calls returned the series holds exactly
\* n more samples, each appended value present exactly once.
C14_ConcurrentAppendsAllKept ==
    (AllRecorded /\ Len(held) + NumRecorders <= HistogramCapacity) =>
        LET content == ToArray(histograms[RecorderKey])
        IN  /\ Len(content) = Len(held) + NumRecorders
            /\ \A p \in Recorders :
                  Cardinality({i \in DOMAIN content : content[i] = SampleOf(p)}) = 1

\* C15: in every reachable state, the states inside a RecordValue call
\* included, no series holds more than N samples, and no snapshot reports a
\* histogram count above N.
C15_SeriesNeverAboveCapacity ==
    /\ \A key \in DOMAIN histograms : histograms[key].size <= HistogramCapacity
    /\ snapshot # NoSnapshot =>
          \A key \in DOMAIN snapshot.Histograms :
              snapshot.Histograms[key].Count <= HistogramCapacity

-----------------------------------------------------------------------------
(* Further claims about the pipeline and the limiters *)

\* a counter stays or grows by exactly 1
StepsByOne(before, after) == after = before \/ after = before + 1

\* the same, for every counter of a Node counter map
MapStepsByOne(before, after) ==
    /\ DOMAIN after = DOMAIN before
    /\ \A key \in DOMAIN before : StepsByOne(before[key], after[key])

\* C16: every counter is monotonically non-decreasing: a step of either
\* pipeline leaves each counter as it was or adds exactly 1 to it, never
\* deletes a counter, and the first increment of a key leaves it at 1.
C16_CountersOnlyGrowByOne ==
    [][/\ \A key \in DOMAIN counters :
             key \in DOMAIN counters' /\ StepsByOne(counters[key], counters'[key])
       /\ \A key \in DOMAIN counters' \ DOMAIN counters : counters'[key] = 1
       /\ nodeMetrics # <<>> =>
            /\ StepsByOne(nodeMetrics.requests.total, nodeMetrics'.requests.total)
            /\ MapStepsByOne(nodeMetrics.requests.byMethod, nodeMetrics'.requests.byMethod)
            /\ MapStepsByOne(nodeMetrics.requests.byStatus, nodeMetrics'.requests.byStatus)
            /\ MapStepsByOne(nodeMetrics.requests.byEndpoint,
                             nodeMetrics'.requests.byEndpoint)
            /\ StepsByOne(nodeMetrics.responseTime.count, nodeMetrics'.responseTime.count)
            /\ StepsByOne(nodeMetrics.errors.total, nodeMetrics'.errors.total)
            /\ MapStepsByOne(nodeMetrics.errors.byType, nodeMetrics'.errors.byType)]_vars

\* C16 witness: a counter incremented more than once beside one incremented once
C16_Witness ==
    /\ stack = "cs"
    /\ \E route \in Routes :
          /\ CounterValue(counters, RequestsKey(route)) >= 3
          /\ CounterValue(counters, ErrorsKey(route)) = 1
          /\ CounterValue(counters, ResponsesKey(route, 200)) = 2

\* C17: the cleanup scan of a request removes another client's entry only
\* when it is idle past 2 x windowDuration: an entry whose age is below
\* 2 x windowDuration is still there after the scan, in either stack.
C17_CleanupOnlyAfterTwoWindows ==
    [][\A c, d \in Clients :
        (LimiterRequest(c) /\ d # c)
        => /\ (rateLimitStore[d] # NoEntry
               /\ now - rateLimitStore[d].windowStart < 2 * WindowTicks)
              => rateLimitStore'[d] # NoEntry
           /\ (clients[d] # NoEntry /\ now - clients[d].windowStart < 2 * WindowTicks)
              => clients'[d] # NoEntry]_vars

\* C18: a rejected request leaves the rejected client's count and windowStart
\* exactly as they were before the call, in either stack.
C18_RejectionLeavesWindow ==
    [][\A c \in Clients :
        LimiterRequest(c)
        => /\ nodeResp'[c].status = 429 => rateLimitStore'[c] = rateLimitStore[c]
           /\ csResp'[c].status = 429 => clients'[c] = clients[c]]_vars

\* C18 witness: a client was just rejected, late in a window with its quota spent
C18_Witness ==
    \E c \in Clients :
        /\ nodeResp[c].status = 429 /\ csResp[c].status = 429
        /\ rateLimitStore[c] = [count |-> QuotaSize, windowStart |-> now - 1]
        /\ clients[c] = [count |-> QuotaSize, windowStart |-> now - 1]

\* the newest sample of a series
LastSample(table, key) == table[key][Len(table[key])]

\* C19: when the handler of an admitted request raises, the C# metrics
\* middleware records the duration sample and the error count and then lets
\* the error propagate: the call ends by raising, never by a normal return.
C19_HandlerErrorPropagates ==
    [][\A req \in PendingRequests :
        CsThrow(req)
        => /\ DurationKey(req.route) \in DOMAIN histograms'
           /\ LastSample(histograms', DurationKey(req.route)) = now - req.start
           /\ CounterValue(counters', ErrorsKey(req.route))
                = CounterValue(counters, ErrorsKey(req.route)) + 1
           /\ csRequests'.raised = csRequests.raised + 1
           /\ csRequests'.returned = csRequests.returned]_vars

\* C19 witness: a handler raised after the clock moved; the call raised too
C19_Witness ==
    /\ stack = "cs"
    /\ csRequests.raised >= 1
    /\ csRequests.returned >= 1
    /\ \E route \in Routes :
          /\ csRequests.faulted[route] >= 1
          /\ CounterValue(counters, ErrorsKey(route)) >= 1
          /\ DurationKey(route) \in DOMAIN histograms
          /\ LastSample(histograms, DurationKey(route)) = MaxLatency

\* number of requests a stack admitted in the interval of length
\* windowDuration that ends now
AdmittedInInterval(stk) == Sum(admitted[stk], Offsets)

\* C20: in any interval of length windowDuration, wherever it lies relative to
\* the window boundaries, one client is admitted at most 2 x maxRequests
\* times, by either limiter, for requests with non-decreasing timestamps.
C20_BurstAtMostTwiceQuota ==
    \A stk \in Stacks : AdmittedInInterval(stk) <= 2 * QuotaSize

\* C20 witness: a full quota at the end of one window and another full quota
\* at the start of the next, inside one interval
C20_Witness ==
    /\ AdmittedInInterval("cs") = 2 * QuotaSize
    /\ AdmittedInInterval("node") = 2 * QuotaSize - 1
    /\ admitted["cs"][0] = QuotaSize

\* what happens to the bookkeeping of a stack when one request arrives:
\* admitted requests reach the handler with the client's count incremented,
\* rejected requests stop at the 429
PipelineOrder(before, after, resp, requests, requestsAfter, c, route, t) ==
    LET count == IF SameWindow(before, after, c) THEN before[c].count ELSE 0
    IN  /\ requestsAfter.received = requests.received + 1
        /\ IF resp.status = 429
           THEN /\ ~resp.next
                /\ requestsAfter.inFlight = requests.inFlight
                /\ requestsAfter.rejected = requests.rejected + 1
           ELSE /\ resp.next
                /\ after[c].count = count + 1
                /\ requestsAfter.inFlight
                     = requests.inFlight (+) SetToBag({Pending(route, t)})
                /\ requestsAfter.rejected = requests.rejected

\* handlers that were invoked: still running, or finished
NodeInvoked == BagCardinality(nodeRequests.inFlight) + Sum(nodeRequests.ended, Routes)
CsInvoked ==
    BagCardinality(csRequests.inFlight) + Sum(csRequests.completed, Routes)
        + Sum(csRequests.faulted, Routes)

\* C21: the handler of a request is invoked only after the limiter admitted
\* the request and incremented its client's count; a rejected request ends
\* at the 429 and its handler is never invoked, so the handlers invoked are
\* exactly the requests received and not rejected.
C21_HandlerOnlyAfterAdmission ==
    [][/\ \A c \in PipelineClients, route \in Routes :
            /\ NodeRequest(c, route)
               => PipelineOrder(rateLimitStore, rateLimitStore', nodeResp'[c],
                                nodeRequests, nodeRequests', c, route, now)
            /\ CsRequest(c, route)
               => PipelineOrder(clients, clients', csResp'[c],
                                csRequests, csRequests', c, route, now)
       /\ NodeInvoked' = nodeRequests'.received - nodeRequests'.rejected
       /\ CsInvoked' = csRequests'.received - csRequests'.rejected]_vars

\* C21 witness: requests were admitted, one handler finished and one is still
\* running, and a later request was rejected
C21_Witness ==
    /\ stack = "cs"
    /\ csRequests.rejected >= 1
    /\ csResp["10.0.0.1"].status = 429
    /\ clients["10.0.0.1"].count = QuotaSize
    /\ BagCardinality(csRequests.inFlight) >= 1
    /\ Sum(csRequests.completed, Routes) >= 1

-----------------------------------------------------------------------------
(* Claims about the entries of other clients, the bounds of an entry, the     *)
(* cleanup scan and the two limiters side by side                             *)

\* the window of an entry is over for a request at time t (the reset rules)
NodeExpired(data, t) == data # NoEntry /\ t - data.windowStart > RATE_LIMIT_WINDOW
CsExpired(limit, t) ==
    limit # NoEntry /\ TotalMinutes(t, limit.windowStart) >= WindowMinutes

\* the later times at which a client's next request can arrive
LaterTimes == now..MaxTime

AdmittedInWindow(w) == Sum(admitted, {t \in 0..MaxTime : w <= t /\ t < w + WindowMinutes})

\* C24: in the C# limiter, under every interleaving of concurrent requests
\* (a scan of one request removing by key an entry another request has
\* fetched or re-created included), a client is admitted at most maxRequests
\* times between a windowStart and windowStart + windowDuration.
C24_QuotaHoldsUnderInterleaving ==
    \A ref \in DOMAIN heap.objects :
        AdmittedInWindow(heap.objects[ref].windowStart) <= MaxRequests

\* the count of an entry and the remaining of an admitted response are in range
WithinBounds(table, resp, c) ==
    /\ table[c] # NoEntry => (0 <= table[c].count /\ table[c].count <= QuotaSize)
    /\ resp[c].next => (0 <= resp[c].remaining /\ resp[c].remaining <= QuotaSize - 1)

\* C25: in every reachable state of either limiter, every entry of the table
\* has 0 <= count <= maxRequests, and every admitted response has its
\* remaining in [0, maxRequests - 1].
C25_CountAndRemainingBounded ==
    \A c \in Clients :
        /\ WithinBounds(rateLimitStore, nodeResp, c)
        /\ WithinBounds(clients, csResp, c)

\* C25 witness: one client was just admitted with its last request of the
\* window, another with its first
C25_Witness ==
    \E c \in Clients : \E d \in Clients \ {c} :
        /\ rateLimitStore[c].count = QuotaSize /\ clients[c].count = QuotaSize
        /\ nodeResp[c].next /\ nodeResp[c].remaining = 0
        /\ csResp[c].next /\ csResp[c].remaining = 0
        /\ nodeResp[d].next /\ nodeResp[d].remaining = QuotaSize - 1
        /\ csResp[d].next /\ csResp[d].remaining = QuotaSize - 1

\* two responses carry the same decision, remaining and reset instant
SameAnswer(a, b) ==
    /\ a.next = b.next
    /\ a.status = b.status
    /\ a.remaining = b.remaining
    /\ a.reset = b.reset

\* no entry of the table is older than two windows at time t
NoneOlderThanTwoWindows(table, t) ==
    \A k \in Clients : table[k] # NoEntry => t - table[k].windowStart <= 2 * WindowTicks

\* C26: the cleanup scan is observationally transparent: for requests with
\* non-decreasing timestamps, each limiter answers every request with the
\* same decision, remaining and reset instant as the same limiter with the
\* scan disabled, and right after each request its table holds no entry older
\* than 2 x windowDuration.
C26_ScanIsTransparent ==
    [][\A c \in Clients :
        ScanRequest(c)
        => /\ SameAnswer(nodeResp'[c], unscanned'.nodeResp)
           /\ SameAnswer(csResp'[c], unscanned'.csResp)
           /\ NoneOlderThanTwoWindows(rateLimitStore', now)
           /\ NoneOlderThanTwoWindows(clients', now)]_vars

\* C26 witness: both scans have deleted the entry of a client whose quota
\* was spent, the scan-free tables still hold it, and the other client was
\* just rejected
C26_Witness ==
    \E c \in Clients : \E d \in Clients \ {c} :
        /\ rateLimitStore[d] = NoEntry /\ clients[d] = NoEntry
        /\ unscanned.node[d].count = QuotaSize /\ unscanned.cs[d].count = QuotaSize
        /\ now - unscanned.cs[d].windowStart > 2 * WindowTicks
        /\ nodeResp[c].status = 429 /\ csResp[c].status = 429
        /\ unscanned.nodeResp.status = 429

\* C27: the Node and the C# limiter are equivalent: fed the same requests one
\* at a time, they answer every request with the same decision, the same
\* remaining and the same reset instant, requests that arrive exactly
\* windowDuration after windowStart included.
C27_LimitersEquivalent ==
    [][\A c \in Clients :
        LimiterRequest(c)
        => /\ nodeResp'[c].next = csResp'[c].next
           /\ nodeResp'[c].remaining = csResp'[c].remaining
           /\ Instant(nodeResp'[c].reset) = Instant(csResp'[c].reset)]_vars

\* C30: CreateKey is injective on (name, label list): two different series,
\* differing in the metric name or in the list of label values, never get the
\* same key, so an increment of one never lands in the counter of the other,
\* also when names or label values contain the separator "_".
C30_CreateKeyInjective ==
    [][\A a, b \in CounterSeries :
        (ServiceIncrement(a.name, a.labels) /\ a # b)
        => /\ CreateKey(a.name, a.labels) # CreateKey(b.name, b.labels)
           /\ CounterValue(counters', CreateKey(b.name, b.labels))
                = CounterValue(counters, CreateKey(b.name, b.labels))]_vars

-----------------------------------------------------------------------------
(* Claims about the counters of the metrics middlewares *)

\* C29: in every reachable state of the Node metrics middleware,
\* requests.total = sum of byMethod = sum of byEndpoint; responseTime.count =
\* sum of byStatus <= requests.total; errors.total = the number of finished
\* responses with status >= 400 = sum of errors.byType <= responseTime.count;
\* and once a response has finished, responseTime.min <= responseTime.max and
\* responseTime.total is the sum of all recorded durations.
C29_NodeMetricsConsistent ==
    stack = "node"
    => /\ nodeMetrics.requests.total = Sum(nodeMetrics.requests.byMethod, Methods)
       /\ nodeMetrics.requests.total = Sum(nodeMetrics.requests.byEndpoint, Paths)
       /\ nodeMetrics.responseTime.count = Sum(nodeMetrics.requests.byStatus, Statuses)
       /\ nodeMetrics.responseTime.count <= nodeMetrics.requests.total
       /\ nodeMetrics.errors.total = nodeRequests.failed
       /\ nodeMetrics.errors.total = Sum(nodeMetrics.errors.byType, ErrorTypes)
       /\ nodeMetrics.errors.total <= nodeMetrics.responseTime.count
       /\ nodeMetrics.responseTime.count >= 1
          => /\ nodeMetrics.responseTime.min <= nodeMetrics.responseTime.max
             /\ nodeMetrics.responseTime.total = nodeRequests.elapsed

\* C29 witness: a client error, a server error and a request still in flight,
\* with a fast and a slow response
C29_Witness ==
    /\ stack = "node"
    /\ nodeMetrics.requests.total = QuotaSize
    /\ nodeMetrics.responseTime.count = QuotaSize - 1
    /\ nodeMetrics.errors.byType["client"] >= 1
    /\ nodeMetrics.errors.byType["server"] >= 1
    /\ nodeMetrics.responseTime.min < nodeMetrics.responseTime.max
    /\ nodeMetrics.responseTime.total >= 1

\* the requests of the recorders' route that have left the middleware, and
\* those still inside it
RecorderFinished == Len(held) + Cardinality({p \in Recorders : recorders[p].pc = "counted"})
RecorderInFlight == Cardinality({p \in Recorders : recorders[p].pc # "counted"})

\* the sum of http_responses_total over the status codes of a route
ResponsesOfRoute(route) ==
    Sum([statusCode \in Statuses |->
            CounterValue(counters, ResponsesKey(route, statusCode))], Statuses)

\* C28: in every reachable state of the C# metrics middleware, for a (method,
\* path): http_requests_total = the sum over the status codes of
\* http_responses_total + http_errors_total + the requests still in flight, and
\* the duration histogram has received exactly one sample per finished request
\* (stated while the series is below its capacity: it holds a sample for every
\* finished request and at most one more for each request in flight).
C28_CsMetricsConsistent ==
    /\ CounterValue(counters, RequestsKey(RecorderRoute))
         = ResponsesOfRoute(RecorderRoute)
             + CounterValue(counters, ErrorsKey(RecorderRoute)) + RecorderInFlight
    /\ Len(held) + NumRecorders <= HistogramCapacity
       => LET samples == IF RecorderKey \in DOMAIN histograms
                         THEN histograms[RecorderKey].size ELSE 0
          IN  /\ RecorderFinished <= samples
              /\ samples <= RecorderFinished + RecorderInFlight

====
